---- MODULE Spec2Model ----
(***************************************************************************)
(* A model of the benchmark plotting tool: the resilient JSON stream       *)
(* decoder of json.rs, the identity parser (BenchId), the Plots store of   *)
(* plot.rs and the driver of main.rs.                                      *)
(*                                                                         *)
(* A buffer is a sequence of one-character strings, one per byte.  Byte    *)
(* offsets are 0-based as in Rust: the byte at offset i is b[i + 1].       *)
(* The JSON alphabet of the inputs is restricted to objects, arrays,       *)
(* strings without escapes, unsigned integers and the blank; every other   *)
(* byte is a syntax error for the parser, as it is for serde_json.         *)
(***************************************************************************)
EXTENDS Integers, Sequences, FiniteSets, TLC

VARIABLES
    input,        \* ghost: the fragments the file was assembled from
    file,         \* the bytes read_json_from_file reads
    json,         \* ResilientStreamDeserializer.json (the remaining slice)
    stream_off,   \* byte offset of ResilientStreamDeserializer.stream in json
    last_ok_pos,  \* ResilientStreamDeserializer.last_ok_pos
    items,        \* ghost: the items the pulls have yielded so far, in order
    ended,        \* ghost: the last pull returned None
    after_end,    \* ghost: how many pulls were made after a pull returned None
    read_ret,     \* what read_json_from_file returned to main, once called
    plots,        \* the Plots in memory: group_name -> Plot
    pc,           \* where the run of main is: exited, loaded, added, panicked
    disk,         \* plot-data.json
    mem_hist,     \* ghost: how the Plots in memory came about
    disk_hist     \* ghost: how the Plots on disk came about

decoderVars ==
    <<input, file, json, stream_off, last_ok_pos, items, ended, after_end, read_ret>>
storeVars == <<plots, pc, disk, mem_hist, disk_hist>>
vars == <<decoderVars, storeVars>>

-----------------------------------------------------------------------------
(* Bytes *)

Q == "\""
EOF == ""
Blank == " "
DigitChars == <<"0", "1", "2", "3", "4", "5", "6", "7", "8", "9">>
DigitSet == {DigitChars[i] : i \in 1..10}
DigitValues == [c \in DigitSet |-> (CHOOSE i \in 1..10 : DigitChars[i] = c) - 1]
IsDigit(c) == c \in DigitSet
DigitVal(c) == DigitValues[c]

Peek(b, off) == IF off < Len(b) THEN b[off + 1] ELSE EOF

\* &s[n..]
SliceFrom(b, n) == SubSeq(b, n + 1, Len(b))

RECURSIVE SkipWs(_, _)
SkipWs(b, off) ==
    IF Peek(b, off) = Blank THEN SkipWs(b, off + 1) ELSE off

-----------------------------------------------------------------------------
(* serde_json::Value, and the untyped parser that builds it.               *)
(* A parse result is [ok, off, v]: off is the byte offset after the value. *)

VNone == [t |-> "none", n |-> 0, s |-> <<>>, keys |-> <<>>, kids |-> <<>>]
VNum(n) == [VNone EXCEPT !.t = "num", !.n = n]
VStr(s) == [VNone EXCEPT !.t = "str", !.s = s]
VArr(kids) == [VNone EXCEPT !.t = "arr", !.kids = kids]
VObj(keys, kids) == [VNone EXCEPT !.t = "obj", !.keys = keys, !.kids = kids]

ParseFail == [ok |-> FALSE, off |-> 0, v |-> VNone]
ParseOk(off, v) == [ok |-> TRUE, off |-> off, v |-> v]

RECURSIVE FindQuote(_, _)
FindQuote(b, off) ==
    IF off >= Len(b) THEN -1
    ELSE IF b[off + 1] = Q THEN off
    ELSE FindQuote(b, off + 1)

\* b[off + 1] is the opening quote
ParseString(b, off) ==
    LET close == FindQuote(b, off + 1)
    IN  IF close < 0 THEN ParseFail
        ELSE ParseOk(close + 1, VStr(SubSeq(b, off + 2, close)))

RECURSIVE ParseDigits(_, _, _)
ParseDigits(b, off, acc) ==
    IF IsDigit(Peek(b, off))
    THEN ParseDigits(b, off + 1, 10 * acc + DigitVal(Peek(b, off)))
    ELSE ParseOk(off, VNum(acc))

\* b[off + 1] is a digit; a leading 0 must stand alone
ParseNumber(b, off) ==
    IF Peek(b, off) = "0"
    THEN IF IsDigit(Peek(b, off + 1)) THEN ParseFail ELSE ParseOk(off + 1, VNum(0))
    ELSE ParseDigits(b, off, 0)

RECURSIVE ParseValue(_, _), ParseElems(_, _, _, _), ParseMembers(_, _, _, _, _)

ParseValue(b, off) ==
    LET o == SkipWs(b, off)
        c == Peek(b, o)
    IN  IF c = "{" THEN ParseMembers(b, o + 1, TRUE, <<>>, <<>>)
        ELSE IF c = "[" THEN ParseElems(b, o + 1, TRUE, <<>>)
        ELSE IF c = Q THEN ParseString(b, o)
        ELSE IF IsDigit(c) THEN ParseNumber(b, o)
        ELSE ParseFail

\* after the opening bracket: elements separated by commas, then the bracket
ParseElems(b, off, first, acc) ==
    LET o == SkipWs(b, off)
        c == Peek(b, o)
        at == IF first THEN o ELSE SkipWs(b, o + 1)
        r == ParseValue(b, at)
    IN  IF c = "]" THEN ParseOk(o + 1, VArr(acc))
        ELSE IF c = EOF THEN ParseFail
        ELSE IF ~first /\ c # "," THEN ParseFail
        ELSE IF ~first /\ Peek(b, at) = "]" THEN ParseFail
        ELSE IF ~r.ok THEN ParseFail
        ELSE ParseElems(b, r.off, FALSE, Append(acc, r.v))

\* after the opening brace: "key" : value members separated by commas
ParseMembers(b, off, first, keys, kids) ==
    LET o == SkipWs(b, off)
        c == Peek(b, o)
        at == IF first THEN o ELSE SkipWs(b, o + 1)
        k == ParseString(b, at)
        colon == SkipWs(b, k.off)
        r == ParseValue(b, colon + 1)
    IN  IF c = "}" THEN ParseOk(o + 1, VObj(keys, kids))
        ELSE IF c = EOF THEN ParseFail
        ELSE IF ~first /\ c # "," THEN ParseFail
        ELSE IF Peek(b, at) # Q THEN ParseFail
        ELSE IF ~k.ok THEN ParseFail
        ELSE IF Peek(b, colon) # ":" THEN ParseFail
        ELSE IF ~r.ok THEN ParseFail
        ELSE ParseMembers(b, r.off, FALSE, Append(keys, k.v.s), Append(kids, r.v))

-----------------------------------------------------------------------------
(* The typed deserializers: BenchData, BenchId, BenchResult.  serde's      *)
(* derived struct deserializer takes the object form (each field exactly   *)
(* once, unknown keys ignored) and the positional array form.  The typed   *)
(* parse succeeds exactly when the bytes hold a JSON value and the value   *)
(* has that form, and then ends at the end of the value, so it is modelled *)
(* as the untyped parse followed by the conversion of the Value.           *)

KeyId == <<"i", "d">>
KeyTypical == <<"t", "y", "p", "i", "c", "a", "l">>
KeyEstimate == <<"e", "s", "t", "i", "m", "a", "t", "e">>

RECURSIVE SplitFrom(_, _, _, _, _)
SplitFrom(s, sep, i, cur, acc) ==
    IF i > Len(s) THEN Append(acc, cur)
    ELSE IF s[i] = sep THEN SplitFrom(s, sep, i + 1, <<>>, Append(acc, cur))
    ELSE SplitFrom(s, sep, i + 1, Append(cur, s[i]), acc)

\* s.split(sep).collect::<Vec<&str>>()
Split(s, sep) == SplitFrom(s, sep, 1, <<>>, <<>>)

\* s.replace(from, to), for one-byte patterns
Replace(s, from, to) == [i \in 1..Len(s) |-> IF s[i] = from THEN to ELSE s[i]]

NoId == [group_name |-> <<>>, bench_name |-> <<>>, params |-> <<>>]
NoData == [id |-> NoId, result |-> [time |-> 0]]

\* Indices of the members of object v named key
Named(v, key) == {i \in 1..Len(v.keys) : v.keys[i] = key}
TheOne(S) == CHOOSE i \in S : TRUE

\* A variant that restores the colons in every segment, not only the name
BenchIdFromSegments_ReplaceAll(id) ==
    [group_name |-> Replace(id[1], "_", ":"), bench_name |-> Replace(id[2], "_", ":"),
     params |-> Replace(id[3], "_", ":")]

\* impl Deserialize for BenchId
BenchIdFromSegments(id) ==
    [group_name |-> id[1], bench_name |-> Replace(id[2], "_", ":"), params |-> id[3]]

\* A variant that takes any id of at least 3 segments
BenchIdDeserialize_AtLeast3(v) ==
    LET id == Split(v.s, "/")
    IN  IF v.t # "str" THEN [ok |-> FALSE, val |-> NoId]
        ELSE IF Len(id) < 3 THEN [ok |-> FALSE, val |-> NoId]
        ELSE [ok |-> TRUE, val |-> BenchIdFromSegments(id)]

BenchIdDeserialize(v) ==
    LET id == Split(v.s, "/")
    IN  IF v.t # "str" THEN [ok |-> FALSE, val |-> NoId]
        ELSE IF Len(id) # 3 THEN [ok |-> FALSE, val |-> NoId]
        ELSE [ok |-> TRUE, val |-> BenchIdFromSegments(id)]

F64Deserialize(v) == [ok |-> v.t = "num", val |-> v.n]

\* #[derive(Deserialize)] struct BenchResult { #[serde(rename = "estimate")] time: f64 }
BenchResultDeserialize(v) ==
    LET est == Named(v, KeyEstimate)
        field == IF v.t = "obj" THEN v.kids[TheOne(est)] ELSE v.kids[1]
        time == F64Deserialize(field)
        shaped == \/ v.t = "obj" /\ Cardinality(est) = 1
                  \/ v.t = "arr" /\ Len(v.kids) = 1
    IN  IF shaped /\ time.ok
        THEN [ok |-> TRUE, val |-> [time |-> time.val]]
        ELSE [ok |-> FALSE, val |-> [time |-> 0]]

\* A variant without the rename of the field result to "typical"
BenchDataDeserialize_NoRename(v) ==
    LET ids == Named(v, KeyId)
        typs == Named(v, <<"r", "e", "s", "u", "l", "t">>)
        shaped == \/ v.t = "obj" /\ Cardinality(ids) = 1 /\ Cardinality(typs) = 1
                  \/ v.t = "arr" /\ Len(v.kids) = 2
        id == BenchIdDeserialize(IF v.t = "obj" THEN v.kids[TheOne(ids)] ELSE v.kids[1])
        result == BenchResultDeserialize(
                      IF v.t = "obj" THEN v.kids[TheOne(typs)] ELSE v.kids[2])
    IN  IF shaped /\ id.ok /\ result.ok
        THEN [ok |-> TRUE, val |-> [id |-> id.val, result |-> result.val]]
        ELSE [ok |-> FALSE, val |-> NoData]

\* #[derive(Deserialize)] struct BenchData { id, #[serde(rename = "typical")] result }
BenchDataDeserialize(v) ==
    LET ids == Named(v, KeyId)
        typs == Named(v, KeyTypical)
        shaped == \/ v.t = "obj" /\ Cardinality(ids) = 1 /\ Cardinality(typs) = 1
                  \/ v.t = "arr" /\ Len(v.kids) = 2
        id == BenchIdDeserialize(IF v.t = "obj" THEN v.kids[TheOne(ids)] ELSE v.kids[1])
        result == BenchResultDeserialize(
                      IF v.t = "obj" THEN v.kids[TheOne(typs)] ELSE v.kids[2])
    IN  IF shaped /\ id.ok /\ result.ok
        THEN [ok |-> TRUE, val |-> [id |-> id.val, result |-> result.val]]
        ELSE [ok |-> FALSE, val |-> NoData]

-----------------------------------------------------------------------------
(* serde_json's StreamDeserializer::next at byte offset off of buffer b.   *)
(* The result is [some, ok, off, ...]: some = FALSE is None (only blanks   *)
(* are left), off is byte_offset() after the call.                         *)

EndOfValueBytes == {Blank, Q, "[", "]", "{", "}", ",", ":", EOF}

\* StreamDeserializer<StrRead, BenchData>::next
StreamNextBenchData(b, off) ==
    LET o == SkipWs(b, off)
        r == ParseValue(b, o)
        d == BenchDataDeserialize(r.v)
    IN  IF o >= Len(b) THEN [some |-> FALSE, ok |-> FALSE, off |-> o, val |-> NoData]
        ELSE IF r.ok /\ d.ok THEN [some |-> TRUE, ok |-> TRUE, off |-> r.off, val |-> d.val]
        ELSE [some |-> TRUE, ok |-> FALSE, off |-> o, val |-> NoData]

\* StreamDeserializer<StrRead, Value>::next; a number must be followed by a
\* byte that can end a value (peek_end_of_value)
StreamNextValue(b, off) ==
    LET o == SkipWs(b, off)
        r == ParseValue(b, o)
        delineated == r.v.t # "num" \/ Peek(b, r.off) \in EndOfValueBytes
    IN  IF o >= Len(b) THEN [some |-> FALSE, ok |-> FALSE, off |-> o, val |-> VNone]
        ELSE IF r.ok /\ delineated THEN [some |-> TRUE, ok |-> TRUE, off |-> r.off, val |-> r.v]
        ELSE [some |-> TRUE, ok |-> FALSE, off |-> o, val |-> VNone]

-----------------------------------------------------------------------------
(* ResilientStreamDeserializer *)

\* Result<BenchData, JsonError>; JsonError.value is Some(_) when has_value
ItemOk(d) == [tag |-> "Ok", data |-> d, has_value |-> FALSE, value |-> VNone]
ItemErr(has, v) == [tag |-> "Err", data |-> NoData, has_value |-> has, value |-> v]
NoItem == ItemErr(FALSE, VNone)

\* ResilientStreamDeserializer::new
new(s) == [json |-> s, stream_off |-> 0, last_ok_pos |-> 0]

\* A variant that forgets that the error slice starts at last_ok_pos
NextPos_NoBase(it, err) ==
    IF err.ok THEN err.off ELSE Len(it.json)

\* A variant that steps one byte past a syntax error and goes on
NextPos_Resync(it, err) ==
    IF err.ok THEN it.last_ok_pos + err.off ELSE it.last_ok_pos + 1

\* A variant that also steps over the byte that follows the value
NextPos_OnePast(it, err) ==
    IF err.ok THEN it.last_ok_pos + err.off + 1 ELSE Len(it.json)

\* The position after an error: past the value when it was valid JSON, else
\* the end of the buffer
NextPos(it, err) ==
    IF err.ok THEN it.last_ok_pos + err.off ELSE Len(it.json)

\* A variant that ends the sequence at the first value it cannot decode
next_StopAtError(it) ==
    LET r == StreamNextBenchData(it.json, it.stream_off)
    IN  IF ~r.some
        THEN [some |-> FALSE, item |-> NoItem, it |-> [it EXCEPT !.stream_off = r.off]]
        ELSE IF r.ok
        THEN [some |-> TRUE, item |-> ItemOk(r.val),
              it |-> [it EXCEPT !.stream_off = r.off, !.last_ok_pos = r.off]]
        ELSE [some |-> FALSE, item |-> NoItem, it |-> it]

\* A variant that starts over on its slice once the stream has ended
next_Restart(it) ==
    LET r == StreamNextBenchData(it.json, it.stream_off)
        err_json == SliceFrom(it.json, it.last_ok_pos)
        err == StreamNextValue(err_json, 0)
        next_pos == NextPos(it, err)
    IN  IF ~r.some
        THEN [some |-> FALSE, item |-> NoItem, it |-> new(it.json)]
        ELSE IF r.ok
        THEN [some |-> TRUE, item |-> ItemOk(r.val),
              it |-> [it EXCEPT !.stream_off = r.off, !.last_ok_pos = r.off]]
        ELSE IF ~err.some
        THEN [some |-> FALSE, item |-> NoItem, it |-> it]
        ELSE [some |-> TRUE, item |-> ItemErr(err.ok, err.val),
              it |-> new(SliceFrom(it.json, next_pos))]

\* Iterator::next: [some, item, it], it the deserializer after the call
next(it) ==
    LET r == StreamNextBenchData(it.json, it.stream_off)
        err_json == SliceFrom(it.json, it.last_ok_pos)
        err == StreamNextValue(err_json, 0)
        next_pos == NextPos(it, err)
    IN  IF ~r.some
        THEN [some |-> FALSE, item |-> NoItem, it |-> [it EXCEPT !.stream_off = r.off]]
        ELSE IF r.ok
        THEN [some |-> TRUE, item |-> ItemOk(r.val),
              it |-> [it EXCEPT !.stream_off = r.off, !.last_ok_pos = r.off]]
        ELSE IF ~err.some
        THEN [some |-> FALSE, item |-> NoItem, it |-> it]
        ELSE [some |-> TRUE, item |-> ItemErr(err.ok, err.val),
              it |-> new(SliceFrom(it.json, next_pos))]

\* The loop of read_json_from_file: .flatten() keeps the Ok items only
RECURSIVE FlattenAll(_, _)
FlattenAll(it, data) ==
    LET r == next(it)
    IN  IF ~r.some THEN data
        ELSE FlattenAll(r.it, IF r.item.tag = "Ok" THEN Append(data, r.item.data) ELSE data)

\* read_json_from_file, on the contents of the file: Result<Vec<BenchData>, Error>
read_json_from_file(s) == [tag |-> "Ok", data |-> FlattenAll(new(s), <<>>)]

NotCalled == [tag |-> "NotCalled", data |-> <<>>]

-----------------------------------------------------------------------------
(* chrono: DateTime<Utc> is an instant [secs, nanos], secs the seconds     *)
(* since 1970-01-01T00:00:00Z and nanos the sub-second part.  The RFC 3339 *)
(* texts of the inputs are in the canonical form YYYY-MM-DDTHH:MM:SS,      *)
(* an optional fraction, and Z or a numeric offset.                        *)

Instant(secs, nanos) == [secs |-> secs, nanos |-> nanos]
NoInstant == Instant(0, 0)

\* DateTime's PartialOrd
DateTimeLt(a, b) == a.secs < b.secs \/ (a.secs = b.secs /\ a.nanos < b.nanos)

IsLeap(y) == (y % 4 = 0 /\ y % 100 # 0) \/ y % 400 = 0
DaysInMonth(y, m) ==
    IF m = 2 THEN (IF IsLeap(y) THEN 29 ELSE 28)
    ELSE IF m \in {4, 6, 9, 11} THEN 30 ELSE 31

\* Days from 1970-01-01 to the civil date y-m-d
DaysFromCivil(y, m, d) ==
    LET yy == IF m <= 2 THEN y - 1 ELSE y
        era == yy \div 400
        yoe == yy - era * 400
        mp == IF m > 2 THEN m - 3 ELSE m + 9
        doy == (153 * mp + 2) \div 5 + d - 1
        doe == yoe * 365 + yoe \div 4 - yoe \div 100 + doy
    IN  era * 146097 + doe - 719468

\* The civil date <<y, m, d>> of the day z days after 1970-01-01
CivilFromDays(z) ==
    LET zz == z + 719468
        era == zz \div 146097
        doe == zz - era * 146097
        yoe == (doe - doe \div 1460 + doe \div 36524 - doe \div 146096) \div 365
        doy == doe - (365 * yoe + yoe \div 4 - yoe \div 100)
        mp == (5 * doy + 2) \div 153
        d == doy - (153 * mp + 2) \div 5 + 1
        m == IF mp < 10 THEN mp + 3 ELSE mp - 9
        y == yoe + era * 400
    IN  <<IF m <= 2 THEN y + 1 ELSE y, m, d>>

AllDigits(s, from, to) == to <= Len(s) /\ \A i \in from..to : IsDigit(s[i])

RECURSIVE DigitsVal(_, _, _)
DigitsVal(s, from, to) ==
    IF from > to THEN 0 ELSE 10 * DigitsVal(s, from, to - 1) + DigitVal(s[to])

\* The index after the run of digits that starts at i
RECURSIVE DigitsEnd(_, _)
DigitsEnd(s, i) == IF i <= Len(s) /\ IsDigit(s[i]) THEN DigitsEnd(s, i + 1) ELSE i

\* The first 9 digits of the fraction s[from..to] as nanoseconds
RECURSIVE FractionNanos(_, _, _, _)
FractionNanos(s, from, to, scale) ==
    IF from > to \/ scale = 0 THEN 0
    ELSE DigitVal(s[from]) * scale + FractionNanos(s, from + 1, to, scale \div 10)

\* DateTime::parse_from_rfc3339(s).map(|dt| dt.with_timezone(&Utc))
ParseRfc3339(s) ==
    LET y == DigitsVal(s, 1, 4)
        mo == DigitsVal(s, 6, 7)
        d == DigitsVal(s, 9, 10)
        h == DigitsVal(s, 12, 13)
        mi == DigitsVal(s, 15, 16)
        sec == DigitsVal(s, 18, 19)
        shape == /\ Len(s) >= 20
                 /\ AllDigits(s, 1, 4) /\ s[5] = "-" /\ AllDigits(s, 6, 7) /\ s[8] = "-"
                 /\ AllDigits(s, 9, 10) /\ s[11] = "T" /\ AllDigits(s, 12, 13)
                 /\ s[14] = ":" /\ AllDigits(s, 15, 16) /\ s[17] = ":"
                 /\ AllDigits(s, 18, 19)
        frac == s[20] = "."
        fend == IF frac THEN DigitsEnd(s, 21) ELSE 20
        nanos == IF frac THEN FractionNanos(s, 21, fend - 1, 100000000) ELSE 0
        zulu == Len(s) = fend /\ s[fend] = "Z"
        offs == /\ Len(s) = fend + 5 /\ s[fend] \in {"+", "-"}
                /\ AllDigits(s, fend + 1, fend + 2) /\ s[fend + 3] = ":"
                /\ AllDigits(s, fend + 4, fend + 5)
        oh == DigitsVal(s, fend + 1, fend + 2)
        om == DigitsVal(s, fend + 4, fend + 5)
        off == IF zulu THEN 0
               ELSE (IF s[fend] = "-" THEN -1 ELSE 1) * (oh * 3600 + om * 60)
        local == DaysFromCivil(y, mo, d) * 86400 + h * 3600 + mi * 60 + sec
    IN  IF /\ shape
           /\ (frac => fend > 21)
           /\ fend <= Len(s)
           /\ (zulu \/ (offs /\ oh <= 23 /\ om <= 59))
           /\ mo \in 1..12 /\ d \in 1..DaysInMonth(y, mo)
           /\ h <= 23 /\ mi <= 59 /\ sec <= 59
        THEN [ok |-> TRUE, val |-> Instant(local - off, nanos)]
        ELSE [ok |-> FALSE, val |-> NoInstant]

\* n in decimal, at least width digits
RECURSIVE Pad(_, _)
Pad(n, width) ==
    IF width <= 1 /\ n < 10 THEN <<DigitChars[n + 1]>>
    ELSE Pad(n \div 10, width - 1) \o <<DigitChars[(n % 10) + 1]>>

\* impl Serialize for DateTime<Utc>: RFC 3339 in UTC, the fraction with 0, 3, 6
\* or 9 digits, as short as the value allows
FormatRfc3339(dt) ==
    LET days == dt.secs \div 86400
        sod == dt.secs % 86400
        ymd == CivilFromDays(days)
        frac == IF dt.nanos = 0 THEN <<>>
                ELSE IF dt.nanos % 1000000 = 0 THEN <<".">> \o Pad(dt.nanos \div 1000000, 3)
                ELSE IF dt.nanos % 1000 = 0 THEN <<".">> \o Pad(dt.nanos \div 1000, 6)
                ELSE <<".">> \o Pad(dt.nanos, 9)
    IN  Pad(ymd[1], 4) \o <<"-">> \o Pad(ymd[2], 2) \o <<"-">> \o Pad(ymd[3], 2) \o <<"T">>
            \o Pad(sod \div 3600, 2) \o <<":">> \o Pad((sod % 3600) \div 60, 2) \o <<":">>
            \o Pad(sod % 60, 2) \o frac \o <<"Z">>

-----------------------------------------------------------------------------
(* plot.rs.  A number (f64) is an integer of the model; F64_MAX and        *)
(* F64_MIN are the largest and smallest numbers of that domain and MIN_UTC *)
(* its earliest instant.  A HashMap is a function on its keys.             *)

F64_MAX == 2147483647
F64_MIN == -2147483647
MIN_UTC == Instant(-2147483647, 0)

\* HashMap::new, HashMap::insert
EmptyMap == <<>>
Put(m, k, v) == [x \in (DOMAIN m) \cup {k} |-> IF x = k THEN v ELSE m[x]]

\* A variant that drops 9 bytes
str_to_datetime_Nine(inp) ==
    IF Len(inp) < 9 THEN [ok |-> FALSE, val |-> NoInstant]
    ELSE ParseRfc3339(SliceFrom(inp, 9))

\* fn str_to_datetime: split_at(8) panics on a text shorter than 8 bytes
str_to_datetime(inp) ==
    IF Len(inp) < 8 THEN [ok |-> FALSE, val |-> NoInstant]
    ELSE ParseRfc3339(SliceFrom(inp, 8))

\* impl Default for XAxisRange, with now the reading of Utc::now()
XAxisRangeDefault(now) == [min |-> now, max |-> MIN_UTC]

\* impl Default for YAxisRange
YAxisRangeDefault == [min |-> F64_MAX, max |-> F64_MIN]

\* Plot::new
PlotNew(now) ==
    [x_axis |-> XAxisRangeDefault(now), y_axis |-> YAxisRangeDefault, lines |-> EmptyMap]

\* Plots::new
PlotsNew == EmptyMap

\* impl MinMax<DateTime<Utc>> for XAxisRange
XSetMinMax(r, value) ==
    [min |-> IF DateTimeLt(value, r.min) THEN value ELSE r.min,
     max |-> IF DateTimeLt(r.max, value) THEN value ELSE r.max]

\* impl MinMax<f64> for YAxisRange
YSetMinMax(r, value) ==
    [min |-> IF value < r.min THEN value ELSE r.min,
     max |-> IF value > r.max THEN value ELSE r.max]

\* A variant that compares the timestamps only
PointLe_XOnly(a, b) == ~DateTimeLt(b.x, a.x)

\* #[derive(PartialOrd)] for Point: a.partial_cmp(b) is Less or Equal
PointLe(a, b) == DateTimeLt(a.x, b.x) \/ (a.x = b.x /\ a.y <= b.y)

\* The index at which p goes into the sorted s: after every element <= p
RECURSIVE InsertAt(_, _, _)
InsertAt(s, p, i) ==
    IF i <= Len(s) /\ PointLe(s[i], p) THEN InsertAt(s, p, i + 1) ELSE i

InsertPoint(s, p) ==
    LET i == InsertAt(s, p, 1)
    IN  SubSeq(s, 1, i - 1) \o <<p>> \o SubSeq(s, i, Len(s))

RECURSIVE SortFrom(_, _, _)
SortFrom(s, i, acc) ==
    IF i > Len(s) THEN acc ELSE SortFrom(s, i + 1, InsertPoint(acc, s[i]))

\* A variant that sorts by timestamp, descending and stable, and then reverses
RECURSIVE ReverseTiesFrom(_, _, _)
ReverseTiesFrom(s, i, acc) ==
    IF i > Len(s) THEN acc
    ELSE LET before == SelectSeq(acc, LAMBDA q : DateTimeLt(q.x, s[i].x))
             rest == SelectSeq(acc, LAMBDA q : ~DateTimeLt(q.x, s[i].x))
         IN  ReverseTiesFrom(s, i + 1, before \o <<s[i]>> \o rest)
SortPoints_ReverseTies(s) == ReverseTiesFrom(s, 1, <<>>)

\* line.1.sort_by(|a, b| a.partial_cmp(b).unwrap()): a stable sort
SortPoints(s) == SortFrom(s, 1, <<>>)

\* A variant that keeps the latest Point only
PushPoint_Replace(line, point) == <<point>>

\* A variant that keeps one Point of each kind
PushPoint_Upsert(line, point) ==
    IF \E i \in 1..Len(line) : line[i] = point THEN line ELSE Append(line, point)

\* plot.lines.get_mut(..).unwrap().push(point)
PushPoint(line, point) == Append(line, point)

\* The body of the loop of add_data for one record whose timestamp parsed
AddBench(store, bench, commit_date, now) ==
    LET point == [x |-> commit_date, y |-> bench.result.time]
        group == bench.id.group_name
        params == bench.id.params
        plot == IF group \in DOMAIN store THEN store[group] ELSE PlotNew(now)
        lines == IF params \in DOMAIN plot.lines THEN plot.lines
                 ELSE Put(plot.lines, params, <<>>)
    IN  Put(store, group,
            [x_axis |-> XSetMinMax(plot.x_axis, commit_date),
             y_axis |-> YSetMinMax(plot.y_axis, point.y),
             lines |-> [lines EXCEPT ![params] = PushPoint(@, point)]])

\* A variant that creates the Plot of a record before it parses its timestamp
RECURSIVE AddLoop_CreateFirst(_, _, _, _)
AddLoop_CreateFirst(store, bench_data, i, nows) ==
    LET commit_date == str_to_datetime(bench_data[i].id.bench_name)
        group == bench_data[i].id.group_name
        created == IF group \in DOMAIN store THEN store
                   ELSE Put(store, group, PlotNew(nows[i]))
    IN  IF i > Len(bench_data) THEN [panicked |-> FALSE, at |-> 0, plots |-> store]
        ELSE IF ~commit_date.ok THEN [panicked |-> TRUE, at |-> i, plots |-> created]
        ELSE AddLoop_CreateFirst(AddBench(store, bench_data[i], commit_date.val, nows[i]),
                                 bench_data, i + 1, nows)

\* A variant that skips a record whose timestamp does not parse and goes on
RECURSIVE AddLoop_SkipBad(_, _, _, _)
AddLoop_SkipBad(store, bench_data, i, nows) ==
    LET commit_date == str_to_datetime(bench_data[i].id.bench_name)
    IN  IF i > Len(bench_data) THEN [panicked |-> FALSE, at |-> 0, plots |-> store]
        ELSE IF ~commit_date.ok THEN AddLoop_SkipBad(store, bench_data, i + 1, nows)
        ELSE AddLoop_SkipBad(AddBench(store, bench_data[i], commit_date.val, nows[i]),
                             bench_data, i + 1, nows)

\* The first loop of add_data from record i on; nows[i] is what Utc::now()
\* reads while record i is processed.  [panicked, at, plots]
RECURSIVE AddLoop(_, _, _, _)
AddLoop(store, bench_data, i, nows) ==
    LET commit_date == str_to_datetime(bench_data[i].id.bench_name)
    IN  IF i > Len(bench_data) THEN [panicked |-> FALSE, at |-> 0, plots |-> store]
        ELSE IF ~commit_date.ok THEN [panicked |-> TRUE, at |-> i, plots |-> store]
        ELSE AddLoop(AddBench(store, bench_data[i], commit_date.val, nows[i]),
                     bench_data, i + 1, nows)

\* The second loop of add_data: sort each line of each plot
SortAll(store) ==
    [g \in DOMAIN store |->
        [x_axis |-> store[g].x_axis, y_axis |-> store[g].y_axis,
         lines |-> [p \in DOMAIN store[g].lines |-> SortPoints(store[g].lines[p])]]]

\* Plots::add_data
add_data(store, bench_data, nows) ==
    LET r == AddLoop(store, bench_data, 1, nows)
    IN  IF r.panicked THEN r ELSE [r EXCEPT !.plots = SortAll(r.plots)]

-----------------------------------------------------------------------------
(* main.rs: plot-data.json.  The persisted document holds the axis ranges  *)
(* of the x axis as whole seconds (serde ts_seconds) and the x of a Point  *)
(* as RFC 3339 text (chrono's Serialize for DateTime).                     *)

NoFile == [exists |-> FALSE, doc |-> EmptyMap]

SerializePoint(pt) == [x |-> FormatRfc3339(pt.x), y |-> pt.y]
SerializePlot(p) ==
    [x_axis |-> [min |-> p.x_axis.min.secs, max |-> p.x_axis.max.secs],
     y_axis |-> p.y_axis,
     lines |-> [k \in DOMAIN p.lines |->
                   [i \in 1..Len(p.lines[k]) |-> SerializePoint(p.lines[k][i])]]]

\* serde_json::to_string(&plot_data)
to_string(store) == [g \in DOMAIN store |-> SerializePlot(store[g])]

DeserializePoint(pt) == [x |-> ParseRfc3339(pt.x).val, y |-> pt.y]
DeserializePlot(p) ==
    [x_axis |-> [min |-> Instant(p.x_axis.min, 0), max |-> Instant(p.x_axis.max, 0)],
     y_axis |-> p.y_axis,
     lines |-> [k \in DOMAIN p.lines |->
                   [i \in 1..Len(p.lines[k]) |-> DeserializePoint(p.lines[k][i])]]]

\* serde_json::from_str::<Plots>(&s)
from_str(doc) ==
    [ok |-> \A g \in DOMAIN doc : \A k \in DOMAIN doc[g].lines :
                \A i \in 1..Len(doc[g].lines[k]) : ParseRfc3339(doc[g].lines[k][i].x).ok,
     val |-> [g \in DOMAIN doc |-> DeserializePlot(doc[g])]]

\* fn write_plots_to_file: the new contents of plot-data.json
write_plots_to_file(store) == [exists |-> TRUE, doc |-> to_string(store)]

\* fn read_plots_from_file: Err when there is no file or it does not parse
read_plots_from_file(d) ==
    IF d.exists THEN from_str(d.doc) ELSE [ok |-> FALSE, val |-> PlotsNew]

-----------------------------------------------------------------------------
(* The inputs.  A file is the concatenation of at most MaxFrags fragments: *)
(* records in the format the benchmark harness writes, values that are     *)
(* JSON but no record, broken JSON, and blanks.  The decoder sees only the *)
(* bytes.                                                                  *)

MaxFrags == 3

\* How many more pulls are made once a pull has returned None
MaxAfterEnd == 2

Str(s) == <<Q>> \o s \o <<Q>>

RECURSIVE NumText(_)
NumText(n) ==
    IF n < 10 THEN <<DigitChars[n + 1]>>
    ELSE NumText(n \div 10) \o <<DigitChars[(n % 10) + 1]>>

JoinId(segs) ==
    LET RECURSIVE J(_)
        J(i) == IF i > Len(segs) THEN <<>>
                ELSE (IF i > 1 THEN <<"/">> ELSE <<>>) \o segs[i] \o J(i + 1)
    IN  J(1)

\* {"id":"<id>","typical":{"estimate":<n>}}
ObjectText(segs, n) ==
    <<"{">> \o Str(KeyId) \o <<":">> \o Str(JoinId(segs)) \o <<",">> \o Str(KeyTypical)
        \o <<":", "{">> \o Str(KeyEstimate) \o <<":">> \o NumText(n) \o <<"}", "}">>

\* The same record with the members swapped and blanks between the tokens
SpacedText(segs, n) ==
    <<"{", " ">> \o Str(KeyTypical) \o <<" ", ":", "{">> \o Str(KeyEstimate) \o <<":", " ">>
        \o NumText(n) \o <<"}", " ", ",">> \o Str(KeyId) \o <<":">> \o Str(JoinId(segs))
        \o <<" ", "}">>

\* The positional form: ["<id>",[<n>]]
ArrayText(segs, n) ==
    <<"[">> \o Str(JoinId(segs)) \o <<",", "[">> \o NumText(n) \o <<"]", "]">>

SegsShort == << <<"g", "_">>, <<"a", "_", "b", "_">>, <<"_", "p">> >>
SegsExample ==
    << <<"G", "r", "o", "u", "p", "A">>,
       <<"2", "8", "d", "b", "4", "0", "f", "_", "2", "0", "2", "4", "-", "0", "1", "-",
         "3", "0", "T", "1", "9", "_", "0", "7", "_", "0", "4", "-", "0", "5", "_", "0", "0">>,
       <<"r", "c", "=", "1", "0", "0">> >>
SegsEmpty == << <<"a">>, <<>>, <<>> >>
SegsTwo == << <<"g">>, <<"n", "_">> >>
SegsFour == << <<"g">>, <<"n">>, <<"p">>, <<"q">> >>

Frag(kind, text, segs, time) == [kind |-> kind, text |-> text, segs |-> segs, time |-> time]

\* kind "record": a well-formed record; "badid": a record whose id has not 3
\* segments; "mismatch": JSON, but no record; "garbage": bytes no JSON value
\* starts with, whatever follows them; "open": the start of a value, cut
\* short; "ws": blanks
Fragments ==
    << Frag("record", ObjectText(SegsShort, 7), SegsShort, 7),
       Frag("record", SpacedText(SegsExample, 12), SegsExample, 12),
       Frag("record", ArrayText(SegsEmpty, 0), SegsEmpty, 0),
       Frag("badid", ObjectText(SegsTwo, 3), SegsTwo, 3),
       Frag("badid", ObjectText(SegsFour, 4), SegsFour, 4),
       Frag("mismatch", <<"5">>, <<>>, 0),
       Frag("mismatch", <<"{">> \o Str(KeyId) \o <<":">> \o Str(JoinId(SegsShort)) \o <<"}">>,
            <<>>, 0),
       Frag("mismatch", <<"[", "1", " ", ",", Q, "s", Q, "]">>, <<>>, 0),
       Frag("garbage", <<"}">>, <<>>, 0),
       Frag("garbage", <<"{">> \o Str(KeyId) \o <<":", "}">>, <<>>, 0),
       Frag("open", <<Q, "a", "b">>, <<>>, 0),
       Frag("open", <<"{">> \o Str(KeyId) \o <<":">>, <<>>, 0),
       Frag("ws", <<Blank>>, <<>>, 0) >>

Inputs == UNION {[1..n -> 1..Len(Fragments)] : n \in 0..MaxFrags}

RECURSIVE Concat(_, _)
Concat(inp, i) ==
    IF i > Len(inp) THEN <<>> ELSE Fragments[inp[i]].text \o Concat(inp, i + 1)

-----------------------------------------------------------------------------
(* The records the store is fed, as the decoder yields them.  At most      *)
(* MaxRecords records are ingested into one store.                         *)

MaxRecords == 3

Sha == <<"2", "8", "d", "b", "4", "0", "f">>
Bench(group, name, params, time) ==
    [id |-> [group_name |-> group, bench_name |-> name, params |-> params],
     result |-> [time |-> time]]

Benches ==
    << Bench(<<"A">>, Sha \o <<":", "2", "0", "2", "4", "-", "0", "1", "-", "3", "0", "T",
                               "1", "9", ":", "0", "7", ":", "0", "4", "-", "0", "5", ":",
                               "0", "0">>, <<"p">>, 7),
       Bench(<<"A">>, Sha \o <<"-", "2", "0", "2", "4", "-", "0", "1", "-", "3", "1", "T",
                               "0", "0", ":", "0", "7", ":", "0", "4", "Z">>, <<"p">>, 2),
       Bench(<<"A">>, Sha \o <<"-", "2", "0", "2", "4", "-", "0", "1", "-", "3", "0", "T",
                               "1", "9", ":", "0", "7", ":", "0", "4", ".", "5", "Z">>,
             <<"p">>, 3),
       Bench(<<"A">>, Sha \o <<"-", "2", "0", "2", "4", "-", "0", "1", "-", "3", "1", "T",
                               "0", "0", ":", "0", "7", ":", "0", "4", "+", "0", "0", ":",
                               "0", "0">>, <<"q">>, 9),
       Bench(<<"B">>, Sha \o <<"-", "2", "0", "2", "4", "-", "0", "2", "-", "2", "9", "T",
                               "2", "3", ":", "5", "9", ":", "5", "9", "+", "0", "0", ":",
                               "0", "0">>, <<"p">>, 7),
       Bench(<<"A">>, Sha \o <<"a", "-", "2", "0", "2", "4", "-", "0", "1", "-", "3", "0",
                               "T", "1", "9", ":", "0", "7", ":", "0", "4", "Z">>, <<"p">>, 1) >>

\* What Utc::now() may read (the wall clock): an instant before some of the
\* timestamps of the records, and one after them all
NowChoices == <<Instant(1706650000, 0), Instant(1800000000, 0)>>

Batches == UNION {[1..n -> 1..Len(Benches)] : n \in 0..MaxRecords}
BenchData(batch) == [i \in 1..Len(batch) |-> Benches[batch[i]]]

\* A plot-data.json the tool did not write: it holds the Points of two records,
\* and its line is not sorted
ForeignFile ==
    write_plots_to_file(
        AddLoop(PlotsNew, BenchData(<<1, 2>>), 1, <<NowChoices[2], NowChoices[2]>>).plots)

\* The ghost history of a store: fresh (it began as Plots::new()), recs (the
\* records it was fed, in order, as indices of Benches), first (how many it
\* held after the first add_data call that fed it any, -1 before it), cut (how
\* many it held when the latest such call began) and loaded_at (how many it
\* held when it was last read from plot-data.json, 0 if it never was)
FreshHist == [fresh |-> TRUE, recs |-> <<>>, first |-> -1, cut |-> 0, loaded_at |-> 0]
ForeignHist == [FreshHist EXCEPT !.fresh = FALSE, !.recs = <<1, 2>>]

-----------------------------------------------------------------------------
(* The decoder as a state machine: the file is chosen, then the iterator   *)
(* is pulled one item at a time, and read_json_from_file reads the file.   *)

Init ==
    /\ input \in Inputs
    /\ file = Concat(input, 1)
    /\ json = file
    /\ stream_off = 0
    /\ last_ok_pos = 0
    /\ items = <<>>
    /\ ended = FALSE
    /\ after_end = 0
    /\ read_ret = NotCalled
    /\ plots = PlotsNew
    /\ pc = "exited"
    /\ disk = NoFile
    /\ mem_hist = FreshHist
    /\ disk_hist = FreshHist

PullEnabled == after_end < MaxAfterEnd

\* One call of ResilientStreamDeserializer::next; at most MaxAfterEnd calls
\* are made after one that returned None
Pull ==
    LET r == next([json |-> json, stream_off |-> stream_off, last_ok_pos |-> last_ok_pos])
    IN  /\ PullEnabled
        /\ after_end' = IF ended \/ after_end > 0 THEN after_end + 1 ELSE 0
        /\ json' = r.it.json
        /\ stream_off' = r.it.stream_off
        /\ last_ok_pos' = r.it.last_ok_pos
        /\ items' = IF r.some THEN Append(items, r.item) ELSE items
        /\ ended' = ~r.some
        /\ UNCHANGED <<input, file, read_ret, storeVars>>

\* main's call of read_json_from_file on the file
ReadJsonFromFile ==
    /\ read_ret = NotCalled
    /\ read_ret' = read_json_from_file(file)
    /\ UNCHANGED <<input, file, json, stream_off, last_ok_pos, items, ended, after_end,
                   storeVars>>

Next == Pull \/ ReadJsonFromFile

Spec == Init /\ [][Next]_vars

\* The caller keeps pulling (the for loop of read_json_from_file): weak
\* fairness of Pull, written out.  Every Pull step changes items, ended or
\* after_end, so <<Pull>>_vars is enabled exactly when PullEnabled holds.
SpecLive == Spec /\ ([]<>(~PullEnabled) \/ []<><<Pull>>_vars)

-----------------------------------------------------------------------------
(* What the claims about the decoder speak of *)

FragAt(i) == Fragments[input[i]]
KindsOf(inp) == [i \in 1..Len(inp) |-> Fragments[inp[i]].kind]

\* The positions in the input of the fragments that are not blanks
RECURSIVE ValuesFrom(_, _)
ValuesFrom(inp, i) ==
    IF i > Len(inp) THEN <<>>
    ELSE (IF Fragments[inp[i]].kind = "ws" THEN <<>> ELSE <<i>>) \o ValuesFrom(inp, i + 1)
ValuePositions == ValuesFrom(input, 1)

\* The byte offset in the file at which the p-th fragment ends
RECURSIVE EndOffset(_, _)
EndOffset(inp, p) ==
    IF p = 0 THEN 0 ELSE EndOffset(inp, p - 1) + Len(Fragments[inp[p]].text)

\* The absolute cursor: the offset in the file after the last value consumed
Cursor == (Len(file) - Len(json)) + last_ok_pos

\* Every '_' of seg is ':' in out, every other byte is kept
ColonsRestored(seg, out) ==
    /\ Len(out) = Len(seg)
    /\ \A i \in 1..Len(seg) : out[i] = (IF seg[i] = "_" THEN ":" ELSE seg[i])

\* Item it is Ok and holds the record that fragment f was written from
IsRecordOf(it, f) ==
    /\ it.tag = "Ok"
    /\ it.data.id.group_name = f.segs[1]
    /\ ColonsRestored(f.segs[2], it.data.id.bench_name)
    /\ it.data.id.params = f.segs[3]
    /\ it.data.result.time = f.time

IsSchemaMismatch(it) == it.tag = "Err" /\ it.has_value
IsSyntax(it) == it.tag = "Err" /\ ~it.has_value

\* The fragments are values that end where they end: nothing is cut short,
\* and no two numbers touch
Separable ==
    /\ \A i \in 1..Len(input) : FragAt(i).kind \in {"record", "badid", "mismatch", "ws"}
    /\ \A i \in 1..(Len(input) - 1) : ~(FragAt(i).text = <<"5">> /\ FragAt(i + 1).text = <<"5">>)

OnlyRecords == \A i \in 1..Len(input) : FragAt(i).kind \in {"record", "ws"}

\* C1: a buffer of N well-formed records and blanks yields exactly N items, all Ok,
\* the k-th being the k-th record of the buffer, and then ends.
C1_RecordsInOrder ==
    OnlyRecords =>
        /\ Len(items) <= Len(ValuePositions)
        /\ \A k \in 1..Len(items) : IsRecordOf(items[k], FragAt(ValuePositions[k]))
        /\ (ended => Len(items) = Len(ValuePositions))

C1_Witness ==
    /\ OnlyRecords /\ ended
    /\ Len(items) = 2 /\ Len(input) = 3 /\ items[1] # items[2]

\* C2: record A, a JSON value that is no record, record B: the items are Ok(A),
\* Err(SchemaMismatch) carrying that value, Ok(B), and then the end; the value is
\* skipped by exactly its length.
C2_MismatchSkipped ==
    KindsOf(input) = <<"record", "mismatch", "record">> =>
        /\ Len(items) <= 3
        /\ Len(items) >= 1 => IsRecordOf(items[1], FragAt(1))
        /\ Len(items) >= 2 =>
               /\ IsSchemaMismatch(items[2])
               /\ items[2].value = ParseValue(FragAt(2).text, 0).v
        /\ Len(items) = 2 => Cursor = EndOffset(input, 2)
        /\ Len(items) >= 3 => IsRecordOf(items[3], FragAt(3))
        /\ (ended => Len(items) = 3)

C2_Witness ==
    /\ KindsOf(input) = <<"record", "mismatch", "record">>
    /\ ended /\ Len(items) = 3 /\ items[2].value.t = "obj"

\* C3: record A followed by bytes that are no JSON: the items are Ok(A), Err(Syntax),
\* and then the end; Err(Syntax) is always the last item, whatever follows the bytes.
C3_SyntaxEnds ==
    /\ \A k \in 1..Len(items) : IsSyntax(items[k]) => k = Len(items)
    /\ (Len(input) >= 2 /\ FragAt(1).kind = "record" /\ FragAt(2).kind = "garbage") =>
           /\ Len(items) <= 2
           /\ Len(items) >= 1 => IsRecordOf(items[1], FragAt(1))
           /\ Len(items) = 2 => IsSyntax(items[2])
           /\ (ended => Len(items) = 2)

C3_Witness ==
    /\ KindsOf(input) = <<"record", "garbage", "record">>
    /\ ended /\ Len(items) = 2 /\ IsSyntax(items[2])

\* The decode errors read_json_from_file hands to its caller: its Ok carries the
\* records only
ReportedErrors(ret) == IF ret.tag = "Ok" THEN <<>> ELSE <<ret>>
IsErr(it) == it.tag = "Err"

\* C4: every Err item the decoder produces for the file is reported to the caller of
\* read_json_from_file.
C4_ErrorsReported ==
    (ended /\ read_ret # NotCalled) =>
        Len(ReportedErrors(read_ret)) = Len(SelectSeq(items, IsErr))

\* C9: an id of exactly 3 segments gives group_name = s0, bench_name = s1 with every
\* '_' replaced by ':', params = s2; the spec's example parses as the spec says.
C9_IdentityParsed ==
    Separable =>
        \A k \in 1..Len(items) :
            LET f == FragAt(ValuePositions[k])
                id == items[k].data.id
            IN  Len(f.segs) = 3 =>
                    /\ items[k].tag = "Ok"
                    /\ id.group_name = f.segs[1]
                    /\ ColonsRestored(f.segs[2], id.bench_name)
                    /\ id.params = f.segs[3]
                    /\ f.segs = SegsExample =>
                           id = [group_name |-> <<"G", "r", "o", "u", "p", "A">>,
                                 bench_name |->
                                     <<"2", "8", "d", "b", "4", "0", "f", ":", "2", "0", "2",
                                       "4", "-", "0", "1", "-", "3", "0", "T", "1", "9", ":",
                                       "0", "7", ":", "0", "4", "-", "0", "5", ":", "0", "0">>,
                                 params |-> <<"r", "c", "=", "1", "0", "0">>]

C9_Witness ==
    /\ Separable /\ Len(items) = 2
    /\ FragAt(ValuePositions[1]).segs = SegsExample
    /\ FragAt(ValuePositions[2]).segs = SegsShort
    /\ items[2].data.id.bench_name = <<"a", ":", "b", ":">>

\* C10: a record whose id has not exactly 3 segments is never Ok: it is one
\* Err(SchemaMismatch) carrying the record, exactly that record is skipped, and the
\* records that follow are decoded.
C10_BadIdSkipped ==
    Separable =>
        /\ Len(items) <= Len(ValuePositions)
        /\ \A k \in 1..Len(items) :
               LET f == FragAt(ValuePositions[k])
               IN  /\ f.kind = "record" => IsRecordOf(items[k], f)
                   /\ f.kind = "badid" =>
                          /\ IsSchemaMismatch(items[k])
                          /\ items[k].value = ParseValue(f.text, 0).v
                          /\ k = Len(items) => Cursor = EndOffset(input, ValuePositions[k])
        /\ (ended => Len(items) = Len(ValuePositions))

C10_Witness ==
    /\ KindsOf(input) = <<"badid", "badid", "record">>
    /\ FragAt(1).segs = SegsFour /\ FragAt(2).segs = SegsTwo
    /\ ended /\ Len(items) = 3 /\ items[3].tag = "Ok"

-----------------------------------------------------------------------------
(* The store as a state machine.  A run of main reads plot-data.json or    *)
(* starts from Plots::new(), calls add_data, writes plot-data.json and     *)
(* exits; a caller of Plots may call add_data again before the write.  An  *)
(* empty batch is fed only by the first call of a run, to a store that no  *)
(* call has fed records yet.                                               *)

InitStore ==
    /\ input = <<>> /\ file = <<>> /\ json = <<>>
    /\ stream_off = 0 /\ last_ok_pos = 0
    /\ items = <<>> /\ ended = FALSE /\ after_end = 0 /\ read_ret = NotCalled
    /\ plots = PlotsNew
    /\ pc = "exited"
    /\ \/ disk = NoFile /\ disk_hist = FreshHist
       \/ disk = ForeignFile /\ disk_hist = ForeignHist
    /\ mem_hist = FreshHist

\* The start of a run of main: the Plots read from plot-data.json, or new ones
ReadPlots ==
    LET r == read_plots_from_file(disk)
    IN  /\ pc \in {"exited", "panicked"}
        /\ pc' = "loaded"
        /\ plots' = IF r.ok THEN r.val ELSE PlotsNew
        /\ mem_hist' = IF r.ok
                       THEN [disk_hist EXCEPT !.loaded_at = Len(disk_hist.recs)]
                       ELSE FreshHist
        /\ UNCHANGED <<decoderVars, disk, disk_hist>>

\* plots.add_data(&bench_data); Utc::now() reads any of NowChoices
AddData ==
    /\ pc \in {"loaded", "added"}
    /\ \E batch \in Batches :
           /\ Len(mem_hist.recs) + Len(batch) <= MaxRecords
           /\ batch = <<>> => pc = "loaded" /\ mem_hist.first = -1
           /\ \E nows \in [1..Len(batch) -> 1..Len(NowChoices)] :
                  LET r == add_data(plots, BenchData(batch),
                                    [i \in 1..Len(batch) |-> NowChoices[nows[i]]])
                  IN  /\ plots' = r.plots
                      /\ pc' = IF r.panicked THEN "panicked" ELSE "added"
                      /\ mem_hist' =
                             IF batch = <<>> THEN mem_hist ELSE
                             [mem_hist EXCEPT
                                 !.recs = @ \o batch,
                                 !.first = IF @ = -1 THEN Len(mem_hist.recs \o batch)
                                           ELSE @,
                                 !.cut = Len(mem_hist.recs)]
    /\ UNCHANGED <<decoderVars, disk, disk_hist>>

\* A variant in which the write is also reached after an aborted add_data
WritePlots_Always ==
    /\ pc \in {"added", "panicked"}
    /\ pc' = "exited"
    /\ disk' = write_plots_to_file(plots)
    /\ disk_hist' = mem_hist
    /\ UNCHANGED <<decoderVars, plots, mem_hist>>

\* write_plots_to_file(&plots), and the end of the run
WritePlots ==
    /\ pc = "added"
    /\ pc' = "exited"
    /\ disk' = write_plots_to_file(plots)
    /\ disk_hist' = mem_hist
    /\ UNCHANGED <<decoderVars, plots, mem_hist>>

NextStore == ReadPlots \/ AddData \/ WritePlots

SpecStore == InitStore /\ [][NextStore]_vars

-----------------------------------------------------------------------------
(* What the claims about the store speak of *)

\* The Point a record stands for, and the Plot and Series it goes to
BenchPoints ==
    [k \in 1..Len(Benches) |->
        [x |-> str_to_datetime(Benches[k].id.bench_name).val, y |-> Benches[k].result.time]]
PointOf(k) == BenchPoints[k]
GroupOf(k) == Benches[k].id.group_name
SeriesOf(k) == Benches[k].id.params

\* The Points ever ingested into the Plot of group g
IngestedInto(g) ==
    {PointOf(mem_hist.recs[i]) :
        i \in {j \in 1..Len(mem_hist.recs) : GroupOf(mem_hist.recs[j]) = g}}

\* The store was built by add_data calls alone, from Plots::new(), and no
\* record went through plot-data.json
BuiltInMemory == mem_hist.fresh /\ mem_hist.loaded_at = 0

\* r is the exact range of the timestamps (of the values) of pts
ExactX(r, pts) ==
    /\ \E p \in pts : p.x = r.min
    /\ \E p \in pts : p.x = r.max
    /\ \A p \in pts : ~DateTimeLt(p.x, r.min) /\ ~DateTimeLt(r.max, p.x)
ExactY(r, pts) ==
    /\ \E p \in pts : p.y = r.min
    /\ \E p \in pts : p.y = r.max
    /\ \A p \in pts : r.min <= p.y /\ p.y <= r.max

\* C5: after any sequence of add_data calls on a store that started empty,
\* the x_axis and y_axis of every Plot are exactly the smallest and largest
\* timestamp and value over all Points ever ingested into that Plot.
C5_RangesExact ==
    (pc = "added" /\ BuiltInMemory) =>
        \A g \in DOMAIN plots :
            /\ ExactX(plots[g].x_axis, IngestedInto(g))
            /\ ExactY(plots[g].y_axis, IngestedInto(g))

\* Ascending by (timestamp, value), lexicographically
Ascending(a, b) == DateTimeLt(a.x, b.x) \/ (a.x = b.x /\ a.y <= b.y)
Sorted(line) == \A i \in 1..Len(line) - 1 : Ascending(line[i], line[i + 1])

\* C6: after every add_data call that returns, every Series of every Plot of
\* the store is sorted ascending by (timestamp, value), also the Series the
\* call fed no Point and the Series that were unsorted before the call.
C6_AllSeriesSorted ==
    pc = "added" =>
        \A g \in DOMAIN plots : \A k \in DOMAIN plots[g].lines : Sorted(plots[g].lines[k])

\* The unsorted Series of the foreign plot-data.json was loaded, and the calls
\* since fed it no Point
C6_Witness ==
    /\ pc = "added"
    /\ disk = ForeignFile /\ ~mem_hist.fresh /\ mem_hist.loaded_at = 2
    /\ ~Sorted(from_str(disk.doc).val[<<"A">>].lines[<<"p">>])
    /\ \A i \in 3..Len(mem_hist.recs) :
           GroupOf(mem_hist.recs[i]) # <<"A">> \/ SeriesOf(mem_hist.recs[i]) # <<"p">>
    /\ Len(plots[<<"A">>].lines[<<"p">>]) = 2

\* The group keys, the Series keys and the Points of every Series
Lines(store) == [g \in DOMAIN store |-> store[g].lines]

\* One add_data call on a fresh store, fed the records of indices recs
InOneCall(recs) ==
    add_data(PlotsNew, BenchData(recs), [i \in 1..Len(recs) |-> NowChoices[1]])

\* C7: a store built from a fresh one by successive add_data calls has the
\* group keys, the Series keys and the Point sequence of every Series that
\* one add_data call on a fresh store yields for the concatenated records.
C7_BatchingAssociative ==
    (pc = "added" /\ mem_hist.fresh) =>
        /\ ~InOneCall(mem_hist.recs).panicked
        /\ Lines(plots) = Lines(InOneCall(mem_hist.recs).plots)

\* add_data([a,b]) and then add_data([c]), in memory, where c ties with a on
\* the timestamp and goes before it
C7_Witness ==
    /\ pc = "added" /\ BuiltInMemory
    /\ Len(mem_hist.recs) = 3 /\ mem_hist.first = 2 /\ mem_hist.cut = 2
    /\ \E i \in 1..2 :
           /\ GroupOf(mem_hist.recs[i]) = GroupOf(mem_hist.recs[3])
           /\ SeriesOf(mem_hist.recs[i]) = SeriesOf(mem_hist.recs[3])
           /\ PointOf(mem_hist.recs[i]).x = PointOf(mem_hist.recs[3]).x
           /\ PointOf(mem_hist.recs[i]).y > PointOf(mem_hist.recs[3]).y

\* How many elements of the sequence s are equal to e
Count(s, e) == Cardinality({i \in 1..Len(s) : s[i] = e})

\* How many times a record of the Point, Plot and Series of record k was fed
TimesFed(k) ==
    Cardinality({i \in 1..Len(mem_hist.recs) :
                    /\ PointOf(mem_hist.recs[i]) = PointOf(k)
                    /\ GroupOf(mem_hist.recs[i]) = GroupOf(k)
                    /\ SeriesOf(mem_hist.recs[i]) = SeriesOf(k)})

\* The Series of record k in the store
LineOf(store, k) ==
    IF GroupOf(k) \in DOMAIN store /\ SeriesOf(k) \in DOMAIN store[GroupOf(k)].lines
    THEN store[GroupOf(k)].lines[SeriesOf(k)]
    ELSE <<>>

C11_RoundTrip ==
    pc = "added" =>
        read_plots_from_file(write_plots_to_file(plots)) = [ok |-> TRUE, val |-> plots]

\* The records the add_data call of this step is fed, and whether this step
\* is an add_data call
Fed == SubSeq(mem_hist'.recs, Len(mem_hist.recs) + 1, Len(mem_hist'.recs))
IsAddDataStep == pc \in {"loaded", "added"} /\ pc' \in {"added", "panicked"}

\* The timestamp text of record k parses
BenchParses == [k \in 1..Len(Benches) |-> str_to_datetime(Benches[k].id.bench_name).ok]
Parses(k) == BenchParses[k]
FirstBad(batch) ==
    CHOOSE i \in 1..Len(batch) : ~Parses(batch[i]) /\ \A j \in 1..(i - 1) : Parses(batch[j])

Elems(s) == {s[i] : i \in 1..Len(s)}
SeriesKeys(store) ==
    UNION {{<<g, k>> : k \in DOMAIN store[g].lines} : g \in DOMAIN store}
LineAt(store, g, k) ==
    IF g \in DOMAIN store /\ k \in DOMAIN store[g].lines THEN store[g].lines[k] ELSE <<>>

\* The Points of the records of batch that go to Series k of Plot g, in order
PointsFor(batch, g, k) ==
    LET sel == SelectSeq(batch, LAMBDA r : GroupOf(r) = g /\ SeriesOf(r) = k)
    IN  [i \in 1..Len(sel) |-> PointOf(sel[i])]

\* C12: an add_data call fed a Record whose timestamp text does not parse
\* aborts at that Record: the Records before it are appended, that Record is
\* not skipped, no later Record is processed and no Series is re-sorted.
C12_AbortsAtBadRecord ==
    [][IsAddDataStep =>
          IF \A i \in 1..Len(Fed) : Parses(Fed[i])
          THEN pc' = "added"
          ELSE LET done == SubSeq(Fed, 1, FirstBad(Fed) - 1)
               IN  /\ pc' = "panicked"
                   /\ DOMAIN plots' = DOMAIN plots \cup {GroupOf(done[i]) : i \in 1..Len(done)}
                   /\ SeriesKeys(plots') =
                          SeriesKeys(plots)
                              \cup {<<GroupOf(done[i]), SeriesOf(done[i])>> : i \in 1..Len(done)}
                   /\ \A gk \in SeriesKeys(plots') :
                          plots'[gk[1]].lines[gk[2]] =
                              LineAt(plots, gk[1], gk[2]) \o PointsFor(done, gk[1], gk[2])
      ]_vars

\* A call fed [a, b, c], b the Record whose timestamp does not parse, aborted
\* with the Point of a alone in the store
C12_Witness ==
    /\ pc = "panicked" /\ mem_hist.cut = 0 /\ Len(mem_hist.recs) = 3
    /\ Parses(mem_hist.recs[1]) /\ ~Parses(mem_hist.recs[2]) /\ Parses(mem_hist.recs[3])
    /\ Len(LineOf(plots, mem_hist.recs[1])) = 1
    /\ \A gk \in SeriesKeys(plots) :
           gk = <<GroupOf(mem_hist.recs[1]), SeriesOf(mem_hist.recs[1])>>

-----------------------------------------------------------------------------
(* More of what the claims about the decoder speak of *)

\* The absolute position of the decoder: the offset in the file of the next
\* byte its stream reads
StreamPos == (Len(file) - Len(json)) + stream_off

\* C13: a pull that yields an item moves the cursor strictly forward and not
\* past the end of the buffer; an Ok or SchemaMismatch item is the value that
\* starts at the first byte after the old cursor that is not blank, and the
\* new cursor is the offset right after that value; only the Syntax item
\* abandons bytes, moving the cursor to the end of the buffer.
C13_CursorAdvances ==
    [][Len(items') > Len(items) =>
          LET item == items'[Len(items')]
              v == ParseValue(file, SkipWs(file, StreamPos))
          IN  /\ Len(items') = Len(items) + 1
              /\ StreamPos < StreamPos' /\ StreamPos' <= Len(file)
              /\ Cursor' = StreamPos'
              /\ IsSyntax(item) => StreamPos' = Len(file)
              /\ ~IsSyntax(item) => v.ok /\ StreamPos' = v.off
              /\ item.tag = "Ok" => BenchDataDeserialize(v.v) = [ok |-> TRUE, val |-> item.data]
              /\ IsSchemaMismatch(item) => item.value = v.v /\ ~BenchDataDeserialize(v.v).ok
      ]_vars

\* A value that is no record, a blank and a record, all pulled
C13_Witness ==
    /\ KindsOf(input) = <<"mismatch", "ws", "record">>
    /\ Len(items) = 2 /\ IsSchemaMismatch(items[1]) /\ items[2].tag = "Ok"
    /\ StreamPos = Len(file)

\* C14: for every finite buffer, pulling again and again reaches the end of
\* the sequence; every item takes at least one byte of the buffer, so there
\* are no more items than bytes; and when the sequence has ended the decoder
\* is at the end of the buffer.
C14_Terminates ==
    /\ <>ended
    /\ [](Len(items) <= Len(file))
    /\ [](ended => StreamPos = Len(file))

\* The end of a buffer of a record, a value that is no record and broken JSON
C14_Witness ==
    /\ KindsOf(input) = <<"record", "mismatch", "garbage">>
    /\ ended /\ Len(items) = 3 /\ StreamPos = Len(file)

\* C19: once a pull has returned None, every later pull returns None and
\* yields no item.
C19_NonRestartable == [][ended => (ended' /\ items' = items)]_vars

\* Pulls made after the None that follows the Syntax item
C19_Witness ==
    /\ ended /\ after_end = 2
    /\ Len(items) = 2 /\ items[1].tag = "Ok" /\ IsSyntax(items[2])
    /\ KindsOf(input) = <<"record", "garbage", "record">>

-----------------------------------------------------------------------------
(* More of what the claims about the store speak of *)

\* The positions in the history of the records of group g
FedTo(g) == {i \in 1..Len(mem_hist.recs) : GroupOf(mem_hist.recs[i]) = g}

\* C15: after the first Record of a group that was absent is ingested, its
\* Plot has x_axis.min = x_axis.max = the timestamp of the Record and
\* y_axis.min = y_axis.max = its value, whatever the timestamp and the value.
C15_FirstRecordSetsBounds ==
    (pc = "added" /\ BuiltInMemory) =>
        \A g \in DOMAIN plots :
            Cardinality(FedTo(g)) = 1 =>
                LET pt == PointOf(mem_hist.recs[CHOOSE i \in FedTo(g) : TRUE])
                IN  /\ plots[g].x_axis = [min |-> pt.x, max |-> pt.x]
                    /\ plots[g].y_axis = [min |-> pt.y, max |-> pt.y]

\* Every Plot of the store has a Series and every Series has a Point
NoEmptyPlot(store) ==
    \A g \in DOMAIN store :
        /\ DOMAIN store[g].lines # {}
        /\ \A k \in DOMAIN store[g].lines : Len(store[g].lines[k]) >= 1

\* C16: a store that began empty never holds, in memory or in plot-data.json,
\* a Plot without a Series or a Series without a Point, after any add_data
\* calls (also one fed no record, and one that a Record whose timestamp does
\* not parse aborted).
C16_NoEmptyPlot ==
    /\ mem_hist.fresh => NoEmptyPlot(plots)
    /\ (disk.exists /\ disk_hist.fresh) => NoEmptyPlot(from_str(disk.doc).val)

\* A call aborted by a Record whose timestamp does not parse and whose group
\* has no Plot in the store
C16_Witness ==
    /\ pc = "panicked" /\ mem_hist.fresh /\ mem_hist.cut = 0 /\ Len(mem_hist.recs) = 2
    /\ Parses(mem_hist.recs[1]) /\ ~Parses(mem_hist.recs[2])
    /\ DOMAIN plots = {GroupOf(mem_hist.recs[1])}
    /\ GroupOf(mem_hist.recs[2]) \notin DOMAIN plots

\* Every Point is in after at least as many times as in before; as many times
ContainedIn(before, after) ==
    \A i \in 1..Len(before) : Count(before, before[i]) <= Count(after, before[i])
SamePoints(before, after) == Len(before) = Len(after) /\ ContainedIn(before, after)

\* Series k of Plot g is named by a Record of the call of this step
NamedByCall(g, k) == \E i \in 1..Len(Fed) : GroupOf(Fed[i]) = g /\ SeriesOf(Fed[i]) = k

\* C17: an add_data call keeps every group key and Series key, and every
\* Point of every Series, as many times as it was there; a Series that no
\* Record of the call names has the same Points after the call.
C17_AppendOnly ==
    [][IsAddDataStep =>
          /\ DOMAIN plots \subseteq DOMAIN plots'
          /\ SeriesKeys(plots) \subseteq SeriesKeys(plots')
          /\ \A gk \in SeriesKeys(plots) :
                 LET before == plots[gk[1]].lines[gk[2]]
                     after == LineAt(plots', gk[1], gk[2])
                 IN  /\ ContainedIn(before, after)
                     /\ ~NamedByCall(gk[1], gk[2]) => SamePoints(before, after)
      ]_vars

\* Two Series of one Plot, and then a call that fed another Plot
C17_Witness ==
    /\ pc = "added" /\ Len(mem_hist.recs) = 3 /\ mem_hist.cut = 2
    /\ GroupOf(mem_hist.recs[1]) = GroupOf(mem_hist.recs[2])
    /\ SeriesOf(mem_hist.recs[1]) # SeriesOf(mem_hist.recs[2])
    /\ GroupOf(mem_hist.recs[3]) # GroupOf(mem_hist.recs[1])
    /\ Cardinality(SeriesKeys(plots)) = 3
    /\ \A gk \in SeriesKeys(plots) : Len(plots[gk[1]].lines[gk[2]]) = 1

\* The bench_name of record k is a prefix of n bytes, a separator of one byte
\* and a valid RFC 3339 timestamp; the instant that timestamp denotes
NameOf(k) == Benches[k].id.bench_name
Stamps ==
    [n \in {7, 8} |-> [k \in 1..Len(Benches) |-> ParseRfc3339(SliceFrom(NameOf(k), n + 1))]]
HasForm(k, n) == Len(NameOf(k)) > n + 1 /\ Stamps[n][k].ok
StampOf(k, n) == Stamps[n][k].val

\* For every Record whose bench_name has that form with a prefix of n bytes
\* the derivation succeeds (no call fed such Records only is aborted) and the
\* Point of the Record has the timestamp of the bench_name
DerivesWithPrefix(n) ==
    /\ pc = "panicked" =>
           \E i \in (mem_hist.cut + 1)..Len(mem_hist.recs) : ~HasForm(mem_hist.recs[i], n)
    /\ pc = "added" =>
           \A i \in 1..Len(mem_hist.recs) :
               HasForm(mem_hist.recs[i], n) =>
                   Count(LineOf(plots, mem_hist.recs[i]),
                         [x |-> StampOf(mem_hist.recs[i], n),
                          y |-> Benches[mem_hist.recs[i]].result.time]) >= 1

\* C18 as stated: the timestamp of a Point is what follows a prefix of 8
\* characters and a separator in the bench_name, for every bench_name of
\* that form.
C18_PrefixOfEight == DerivesWithPrefix(8)

\* C18 as amended: the timestamp of a Point is what follows the first 8 bytes
\* of the bench_name, a prefix of 7 bytes and a separator of one byte, for
\* every bench_name of that form.
C18_PrefixOfSeven == DerivesWithPrefix(7)

\* The Point of the record "28db40f:2024-01-30T19:07:04-05:00"
C18_Witness ==
    /\ pc = "added" /\ Len(mem_hist.recs) = 1
    /\ HasForm(mem_hist.recs[1], 7) /\ NameOf(mem_hist.recs[1])[8] = ":"
    /\ LineOf(plots, mem_hist.recs[1])[1].x = Instant(1706659624, 0)

\* plot-data.json was written by the tool
WrittenByTool == disk.exists /\ disk_hist # ForeignHist

\* C20: in a run plot-data.json is written only after add_data has returned:
\* it changes in no step but the one that ends a run whose add_data
\* returned, an aborted add_data leaves it as it was before the run, and what
\* the tool wrote is never a store with a batch ingested in part or with an
\* unsorted Series.
C20_WriteAfterIngest ==
    /\ [][(disk' # disk) => (pc = "added" /\ pc' = "exited")]_vars
    /\ [][(pc = "panicked" \/ pc' = "panicked") => disk' = disk]_vars
    /\ [](WrittenByTool =>
             LET saved == from_str(disk.doc).val
             IN  /\ \A i \in 1..Len(disk_hist.recs) : Parses(disk_hist.recs[i])
                 /\ \A gk \in SeriesKeys(saved) : Sorted(saved[gk[1]].lines[gk[2]]))

\* A run that loaded the store of one record and was fed [b, c], c the Record
\* whose timestamp does not parse: the Point of b is in memory and not on
\* disk
C20_Witness ==
    /\ pc = "panicked" /\ WrittenByTool
    /\ Len(mem_hist.recs) = 3 /\ mem_hist.loaded_at = 1 /\ mem_hist.cut = 1
    /\ Parses(mem_hist.recs[2]) /\ ~Parses(mem_hist.recs[3])
    /\ disk_hist.recs = SubSeq(mem_hist.recs, 1, 1)
    /\ Lines(plots) # Lines(from_str(disk.doc).val)

====
